---- MODULE Spec2Model ----
(***************************************************************************)
(* The SQL-backed lightweight job queue of backend/src/job_queue.rs:       *)
(* the job_queue table, the command envelope (JobCommand::serialize and    *)
(* JobCommand::deserialize) and the four operations of JobQueue.  Every    *)
(* action is one SQL statement together with the local code around it;     *)
(* fetch_and_start, which issues two statements, is two steps per loop     *)
(* iteration and any number of callers interleave between them.  A failed  *)
(* statement of enqueue or finish_job (`.await?`) stores nothing and is    *)
(* left out; a failed statement of fetch_and_start ends the call.          *)
(***************************************************************************)
EXTENDS Integers, Sequences, FiniteSets, TLC

\* ------------------------------------------------------------------ bounds
\* Number of rows ever inserted (ids are 1..MaxJobs, in generation order).
MaxJobs == 3
\* Number of concurrent fetch_and_start callers.
NumWorkers == 2
\* BranchRef payloads are 1..MaxBranchRef.
MaxBranchRef == 2
\* Wall-clock readings are 1..MaxTime.
MaxTime == 1
\* count_pending is called with max in 0..MaxCountArg.
MaxCountArg == 1

\* ------------------------------------------------------- program constants
\* enqueue's priority (job_queue.rs:66).
DefaultPriority == 100
\* The raised priority of test_enqueue_fetch (job_queue.rs:205).
TestPriority == 120
\* The smallest u16 that `priority as i16` (job_queue.rs:85) maps below zero.
I16Wrap == 32768
\* 2^16, the modulus of the u16 -> i16 cast.
U16Modulus == 65536

JobRefs == 1..MaxJobs
Workers == 1..NumWorkers
BranchRefs == 1..MaxBranchRef
Times == 1..MaxTime
Priorities == {DefaultPriority, TestPriority, I16Wrap}

\* Option<T> and Result<T, E>
None == << >>
Some(x) == << x >>
IsSome(o) == o # << >>
Unwrap(o) == o[1]
Ok(v) == [tag |-> "Ok", val |-> v]
Err(e) == [tag |-> "Err", val |-> e]
IsOk(r) == r.tag = "Ok"
Unit == "()"

StoreError == [err |-> "StoreError", id |-> 0]
DecodeError == [err |-> "DecodeError", id |-> 0]
JobAborted(id) == [err |-> "JobAborted", id |-> id]

\* ------------------------------------------------------------- JobCommand
\* enum JobCommand { SyncBranch(BranchRef) }
SyncBranch(b) == [variant |-> "SyncBranch", f0 |-> b]
JobCommands == { SyncBranch(b) : b \in BranchRefs }

\* serde's adjacently tagged representation: {"t": <variant name>, "c": <content>}
\* (the container attribute is `rename`, so variant names are kept as written).
to_value(cmd) == [t |-> cmd.variant, c |-> cmd.f0]

\* serde_json::from_value::<JobCommand>: the tag must name a variant and the
\* content must be a BranchRef.
from_value(value) ==
    IF value.t = "SyncBranch" /\ value.c \in BranchRefs
    THEN Ok(SyncBranch(value.c))
    ELSE Err(DecodeError)

\* JobCommand::serialize with the tag in kebab-case, which no variant carries.
JobCommand_serializeKebab(cmd) ==
    LET value == to_value(cmd) IN << "sync-branch", value.c >>

\* JobCommand::serialize: (value["t"], value.remove("c"))
JobCommand_serialize(cmd) ==
    LET value == to_value(cmd) IN << value.t, value.c >>

\* JobCommand::deserialize that drops the content and builds the variant
\* around a default BranchRef.
JobCommand_deserializeSkipContent(kind, value) ==
    from_value([t |-> kind, c |-> 1])

\* JobCommand::deserialize: from_value(json!({"t": kind, "c": value}))
JobCommand_deserialize(kind, value) ==
    from_value([t |-> kind, c |-> value])

\* ------------------------------------------------------------------ state
VARIABLES
    job_queue,  \* the table: id -> [kind, data, priority, started_at]
    nextId,     \* the next id Uuid::now_v7() yields (time-ordered)
    pc,         \* per fetch_and_start caller: "idle", "select", "update", "retry"
    sel,        \* per caller: the (id, kind, data) its select returned
    time,       \* per caller: the `time` of the current loop iteration
    returned,   \* the Jobs fetch_and_start returned as Some(Job), in order
    enqueued,   \* history: id -> the command passed to the enqueue that made it
    last        \* the last completed call: [op, arg, res]

vars == << job_queue, nextId, pc, sel, time, returned, enqueued, last >>

\* `priority as i16`
AsI16(priority) ==
    IF priority >= I16Wrap THEN priority - U16Modulus ELSE priority

Rows(q) == DOMAIN q

\* The select's filter left out: every row matches.
PendingFilterAny(row) == TRUE

\* dsl::started_at.is_null()
PendingFilter(row) == row.started_at = None

Pending(q) == { id \in Rows(q) : PendingFilter(q[id]) }
Claimed(q) == { id \in Rows(q) : ~PendingFilter(q[id]) }

\* OrderedBefore with the tie-break reversed (dsl::id.desc()).
OrderedBeforeIdDesc(q, a, b) ==
    \/ q[a].priority > q[b].priority
    \/ q[a].priority = q[b].priority /\ a >= b

\* OrderedBefore with the priority ascending (dsl::priority.asc()).
OrderedBeforePriorityAsc(q, a, b) ==
    \/ q[a].priority < q[b].priority
    \/ q[a].priority = q[b].priority /\ a <= b

\* .order((dsl::priority.desc(), dsl::id.asc()))
OrderedBefore(q, a, b) ==
    \/ q[a].priority > q[b].priority
    \/ q[a].priority = q[b].priority /\ a <= b

\* .limit(1).filter(started_at.is_null()).order(...).select((id, kind, data))
\* followed by .optional()
SelectPending(q) ==
    IF Pending(q) = {}
    THEN None
    ELSE LET id == CHOOSE a \in Pending(q) : \A b \in Pending(q) : OrderedBefore(q, a, b)
         IN Some([id |-> id, kind |-> q[id].kind, data |-> q[id].data])

\* ClaimFilter without the started_at test: an unconditional update by id.
ClaimFilterIdOnly(q, row, id) == row = id

\* update(..).filter(id.eq(id).and(started_at.is_null()))
ClaimFilter(q, row, id) == row = id /\ q[row].started_at = None

\* FinishFilter without the started_at test: deletes a pending row too.
FinishFilterIdOnly(q, row, id) == row = id

\* FinishFilter without the id test: deletes every claimed row.
FinishFilterAnyClaimed(q, row, id) == q[row].started_at # None

\* FinishFilter with the started_at test inverted (is_null).
FinishFilterPendingOnly(q, row, id) == row = id /\ q[row].started_at = None

\* delete(..).filter(id.eq(id).and(started_at.is_not_null()))
FinishFilter(q, row, id) == row = id /\ q[row].started_at # None

\* finish_job without the `cols == 0` test.
finish_job_resultUnchecked(cols, id) == Ok(Unit)

\* if cols == 0 { return Err(JobAborted(id)) } Ok(())
finish_job_result(cols, id) ==
    IF cols = 0 THEN Err(JobAborted(id)) ELSE Ok(Unit)

NoCall == [op |-> "none", arg |-> 0, res |-> Ok(Unit)]

Init ==
    /\ job_queue = << >>
    /\ nextId = 1
    /\ pc = [w \in Workers |-> "idle"]
    /\ sel = [w \in Workers |-> None]
    /\ time = [w \in Workers |-> None]
    /\ returned = << >>
    /\ enqueued = << >>
    /\ last = NoCall

\* ---------------------------------------------------------------- enqueue
\* enqueue_with_priority: a fresh id, the serialized command, one insert.
enqueue_with_priority(job, priority) ==
    /\ nextId <= MaxJobs
    /\ LET id == nextId
           ser == JobCommand_serialize(job)
           row == [kind |-> ser[1], data |-> ser[2],
                   priority |-> AsI16(priority), started_at |-> None]
       IN /\ job_queue' = [i \in Rows(job_queue) \cup {id} |->
                              IF i = id THEN row ELSE job_queue[i]]
          /\ enqueued' = [i \in DOMAIN enqueued \cup {id} |->
                              IF i = id THEN [command |-> job]
                              ELSE enqueued[i]]
          /\ last' = [op |-> "enqueue", arg |-> id, res |-> Ok(Unit)]
    /\ nextId' = nextId + 1
    /\ UNCHANGED << pc, sel, time, returned >>

\* enqueue: enqueue_with_priority(conn, job, 100)
enqueue(job) == enqueue_with_priority(job, DefaultPriority)

\* -------------------------------------------------------- fetch_and_start
\* A caller enters fetch_and_start and gets its connection.
fetch_and_start_call(w) ==
    /\ pc[w] = "idle"
    /\ pc' = [pc EXCEPT ![w] = "select"]
    /\ UNCHANGED << job_queue, nextId, sel, time, returned, enqueued, last >>

\* Top of the loop, entered by the call or by `continue`: read the clock, run
\* the select (both rebind what the last iteration left); no row is Ok(None).
fetch_and_start_select(w) ==
    /\ pc[w] \in {"select", "retry"}
    /\ \E now \in Times :
         LET result == SelectPending(job_queue) IN
         IF IsSome(result)
         THEN /\ pc' = [pc EXCEPT ![w] = "update"]
              /\ sel' = [sel EXCEPT ![w] = result]
              /\ time' = [time EXCEPT ![w] = Some(now)]
              /\ UNCHANGED last
         ELSE /\ pc' = [pc EXCEPT ![w] = "idle"]
              /\ sel' = [sel EXCEPT ![w] = None]
              /\ time' = [time EXCEPT ![w] = None]
              /\ last' = [op |-> "fetch_and_start", arg |-> w, res |-> Ok(None)]
    /\ UNCHANGED << job_queue, nextId, returned, enqueued >>

\* The conditional update; zero rows is warn! and `continue` ("retry"), one
\* row decodes and returns.
fetch_and_start_update(w) ==
    /\ pc[w] = "update"
    /\ LET s == Unwrap(sel[w])
           hit == { row \in Rows(job_queue) : ClaimFilter(job_queue, row, s.id) }
           cols == Cardinality(hit)
           cmd == JobCommand_deserialize(s.kind, s.data)
       IN /\ job_queue' = [row \in Rows(job_queue) |->
                              IF row \in hit
                              THEN [job_queue[row] EXCEPT !.started_at = time[w]]
                              ELSE job_queue[row]]
          /\ IF cols = 0
             THEN /\ pc' = [pc EXCEPT ![w] = "retry"]
                  /\ UNCHANGED << sel, time, returned, last >>
             ELSE /\ pc' = [pc EXCEPT ![w] = "idle"]
                  /\ sel' = [sel EXCEPT ![w] = None]
                  /\ time' = [time EXCEPT ![w] = None]
                  /\ IF IsOk(cmd)
                     THEN LET job == [id |-> s.id, command |-> cmd.val] IN
                          /\ returned' = Append(returned, job)
                          /\ last' = [op |-> "fetch_and_start", arg |-> w,
                                      res |-> Ok(Some(job))]
                     ELSE /\ UNCHANGED returned
                          /\ last' = [op |-> "fetch_and_start", arg |-> w,
                                      res |-> Err(DecodeError)]
    /\ UNCHANGED << nextId, enqueued >>

\* db.get(), the select or the update fails (`.await?`): the call returns Err.
fetch_and_start_StoreError(w) ==
    /\ pc[w] \in {"select", "retry", "update"}
    /\ pc' = [pc EXCEPT ![w] = "idle"]
    /\ sel' = [sel EXCEPT ![w] = None]
    /\ time' = [time EXCEPT ![w] = None]
    /\ last' = [op |-> "fetch_and_start", arg |-> w, res |-> Err(StoreError)]
    /\ UNCHANGED << job_queue, nextId, returned, enqueued >>

\* ------------------------------------------------------------- finish_job
finish_job(id) ==
    LET hit == { row \in Rows(job_queue) : FinishFilter(job_queue, row, id) }
        cols == Cardinality(hit)
    IN /\ job_queue' = [row \in Rows(job_queue) \ hit |-> job_queue[row]]
       /\ last' = [op |-> "finish_job", arg |-> id,
                   res |-> finish_job_result(cols, id)]
       /\ UNCHANGED << nextId, pc, sel, time, returned, enqueued >>

\* ---------------------------------------------------------- count_pending
\* SELECT COUNT(*) FROM job_queue WHERE started_at IS NOT NULL LIMIT max:
\* the aggregate yields one result row, and LIMIT bounds the result rows.
CountQuery(q, max) ==
    LET resultRows == << Cardinality({ id \in Rows(q) : q[id].started_at # None }) >>
    IN SubSeq(resultRows, 1, IF max < 1 THEN 0 ELSE 1)

\* get_result: the first result row, an error (NotFound) when there is none
count_pending_result(q, max) ==
    LET rows == CountQuery(q, max)
    IN IF rows = << >> THEN Err(StoreError) ELSE Ok(rows[1])

count_pending(max) ==
    /\ last' = [op |-> "count_pending", arg |-> max,
                res |-> count_pending_result(job_queue, max)]
    /\ UNCHANGED << job_queue, nextId, pc, sel, time, returned, enqueued >>

\* ------------------------------------------------------------------- spec
Next ==
    \/ \E job \in JobCommands, priority \in Priorities :
           enqueue_with_priority(job, priority)
    \/ \E w \in Workers : fetch_and_start_call(w)
    \/ \E w \in Workers : fetch_and_start_select(w)
    \/ \E w \in Workers : fetch_and_start_update(w)
    \/ \E w \in Workers : fetch_and_start_StoreError(w)
    \/ \E id \in JobRefs : finish_job(id)
    \/ \E max \in 0..MaxCountArg : count_pending(max)

Spec == Init /\ [][Next]_vars

\* One fetch_and_start caller at a time: successive, never overlapping, calls.
SoloWorkers == { CHOOSE w \in Workers : TRUE }

NextSolo ==
    \/ \E job \in JobCommands, priority \in Priorities :
           enqueue_with_priority(job, priority)
    \/ \E w \in SoloWorkers : fetch_and_start_call(w)
    \/ \E w \in SoloWorkers : fetch_and_start_select(w)
    \/ \E w \in SoloWorkers : fetch_and_start_update(w)
    \/ \E w \in SoloWorkers : fetch_and_start_StoreError(w)
    \/ \E id \in JobRefs : finish_job(id)
    \/ \E max \in 0..MaxCountArg : count_pending(max)

SpecSolo == Init /\ [][NextSolo]_vars

\* The table is shared with other builds of the program: it may hold a row
\* whose kind this build's JobCommand has no variant for (here the kebab-case
\* tag), which JobCommand::deserialize refuses.
ForeignRows ==
    { [kind |-> "sync-branch", data |-> b, priority |-> AsI16(p), started_at |-> None] :
        b \in BranchRefs, p \in Priorities }

InitForeign ==
    /\ \E row \in ForeignRows : job_queue = << row >>
    /\ nextId = 2
    /\ pc = [w \in Workers |-> "idle"]
    /\ sel = [w \in Workers |-> None]
    /\ time = [w \in Workers |-> None]
    /\ returned = << >>
    /\ enqueued = << >>
    /\ last = NoCall

SpecForeign == InitForeign /\ [][Next]_vars

\* The scheduling of the callers: a caller inside fetch_and_start is an async
\* task that runs its next statement once the store answers.
\* Producers here use enqueue (the default priority) and nobody probes the
\* count: neither changes which callers race for a row.
NextFair ==
    \/ \E job \in JobCommands : enqueue(job)
    \/ \E w \in Workers : fetch_and_start_call(w)
    \/ \E w \in Workers : fetch_and_start_select(w)
    \/ \E w \in Workers : fetch_and_start_update(w)
    \/ \E w \in Workers : fetch_and_start_StoreError(w)
    \/ \E id \in JobRefs : finish_job(id)

SpecFair ==
    /\ Init
    /\ [][NextFair]_vars
    /\ \A w \in Workers :
          /\ WF_vars(fetch_and_start_select(w))
          /\ WF_vars(fetch_and_start_update(w))

\* ------------------------------------------------------------- properties
ReturnedIds == { returned[i].id : i \in 1..Len(returned) }

\* Rows with started_at null, and rows with started_at set.
PendingIds == { id \in DOMAIN job_queue : job_queue[id].started_at = << >> }
ClaimedIds == { id \in DOMAIN job_queue : job_queue[id].started_at # << >> }

\* Ids whose row was inserted and has since been deleted.
Finished == DOMAIN enqueued \ DOMAIN job_queue

\* The u16 argument whose `as i16` cast is the stored priority.
PriorityArg(id) ==
    IF job_queue[id].priority < 0
    THEN job_queue[id].priority + U16Modulus
    ELSE job_queue[id].priority

\* The position of a returned id in the order of returns.
ReturnIndex(id) == CHOOSE i \in 1..Len(returned) : returned[i].id = id

\* C1 (at-most-one-claim): whatever the interleaving of fetch_and_start
\* callers, enqueue and finish_job, no job id is returned as Some(Job) twice.
C1_AtMostOneClaim ==
    \A i, j \in 1..Len(returned) :
        returned[i].id = returned[j].id => i = j

\* A caller still holds its selection of a row that another caller has
\* already claimed and been handed.
C1_Witness ==
    \E w \in Workers :
        /\ pc[w] = "update"
        /\ Unwrap(sel[w]).id \in ReturnedIds

\* C2 (priority ordering): when a select step runs while two jobs enqueued
\* with priorities p1 > p2 are both pending, it does not select the p2 job.
C2_PriorityOrdering ==
    [][\A w \in Workers :
          (pc[w] \in {"select", "retry"} /\ pc'[w] = "update") =>
              \A b \in PendingIds :
                  PriorityArg(b) <= PriorityArg(Unwrap(sel'[w]).id)]_vars

\* C3 (FIFO tie-break): of two jobs enqueued with the same priority, the one
\* enqueued later (the larger id) is returned only after the earlier one.
C3_FifoTieBreak ==
    \A a, b \in DOMAIN job_queue :
        (/\ a < b
         /\ PriorityArg(a) = PriorityArg(b)
         /\ b \in ReturnedIds)
        => (a \in ReturnedIds /\ ReturnIndex(a) < ReturnIndex(b))

\* Three jobs of one priority, enqueued A, B, C, were returned as A, B, C.
C3_Witness ==
    /\ Len(returned) = 3
    /\ \A i \in 1..3 : returned[i].id = i
    /\ DOMAIN job_queue = {1, 2, 3}
    /\ \A i \in 1..3 : PriorityArg(i) = PriorityArg(1)

\* C4 (finish idempotence): finish_job on a claimed job succeeds and removes
\* it for good; finish_job on a job already finished fails with JobAborted.
\* So of two calls on a claimed job, the first succeeds and the second aborts.
C4_FinishIdempotence ==
    [][\A id \in JobRefs :
          finish_job(id) =>
              /\ id \in ClaimedIds =>
                     (last'.res = Ok(Unit) /\ id \in Finished')
              /\ id \in Finished =>
                     (last'.res = Err(JobAborted(id)) /\ id \in Finished')]_vars

\* A job was returned, finished once, and a second finish_job was aborted.
C4_Witness ==
    /\ last.op = "finish_job"
    /\ last.res = Err(JobAborted(last.arg))
    /\ last.arg \in Finished
    /\ last.arg \in ReturnedIds

\* C5 (abort on premature finish): finish_job on a pending job fails with
\* JobAborted and leaves the table as it was, the row still pending.
C5_AbortOnPrematureFinish ==
    [][\A id \in JobRefs :
          (finish_job(id) /\ id \in PendingIds) =>
              /\ last'.res = Err(JobAborted(id))
              /\ job_queue' = job_queue
              /\ id \in PendingIds']_vars

\* finish_job was just aborted on a job that is still pending.
C5_Witness ==
    /\ last.op = "finish_job"
    /\ last.res = Err(JobAborted(last.arg))
    /\ last.arg \in PendingIds

\* C6 (finish removes exactly one row): a successful finish_job(id) deletes
\* the row id and leaves every other row as it was; a finished id never has a
\* row again, and no select or return of fetch_and_start yields it (over an
\* empty table fetch_and_start returns None).
C6_FinishRemovesExactlyOne ==
    [][/\ \A id \in JobRefs :
            (finish_job(id) /\ IsOk(last'.res)) =>
                /\ id \in DOMAIN job_queue
                /\ job_queue' = [row \in DOMAIN job_queue \ {id} |-> job_queue[row]]
       /\ Finished \subseteq Finished'
       /\ \A w \in Workers :
            /\ fetch_and_start_select(w) =>
                   /\ IsSome(sel'[w]) => Unwrap(sel'[w]).id \notin Finished
                   /\ DOMAIN job_queue = {} =>
                          (pc'[w] = "idle" /\ last'.res = Ok(None))
            /\ fetch_and_start_update(w) =>
                   (Len(returned') > Len(returned) =>
                        returned'[Len(returned')].id \notin Finished)]_vars

\* A finish_job just succeeded while other rows, pending and claimed, remain.
C6_Witness ==
    /\ last.op = "finish_job"
    /\ IsOk(last.res)
    /\ last.arg \in Finished
    /\ PendingIds # {}
    /\ ClaimedIds # {}

\* C7 (drain), for successive calls: a select finding no pending row returns
\* None and changes no row, also when claimed rows remain; a select finding one
\* is followed by an update that returns a job not returned before and makes
\* exactly that row non-pending.  So k pending jobs take k calls, then None.
C7_Drain ==
    [][\A w \in Workers :
          /\ fetch_and_start_select(w) =>
                 IF PendingIds = {}
                 THEN /\ pc'[w] = "idle"
                      /\ last' = [op |-> "fetch_and_start", arg |-> w, res |-> Ok(None)]
                      /\ job_queue' = job_queue
                 ELSE /\ pc'[w] = "update"
                      /\ Unwrap(sel'[w]).id \in PendingIds
          /\ fetch_and_start_update(w) =>
                 /\ Len(returned') = Len(returned) + 1
                 /\ LET job == returned'[Len(returned')] IN
                        /\ pc'[w] = "idle"
                        /\ last'.res = Ok(Some(job))
                        /\ job.id \in PendingIds
                        /\ job.id \notin ReturnedIds
                        /\ PendingIds' = PendingIds \ {job.id}]_vars

\* test_enqueue_fetch: priorities 100, 120, 100 enqueued as X, Y, Z were
\* returned as Y, X, Z, and the fourth call returned None over claimed rows.
C7_Witness ==
    /\ Len(returned) = 3
    /\ << returned[1].id, returned[2].id, returned[3].id >> = << 2, 1, 3 >>
    /\ ClaimedIds = {1, 2, 3}
    /\ << PriorityArg(1), PriorityArg(2), PriorityArg(3) >>
           = << DefaultPriority, TestPriority, DefaultPriority >>
    /\ last.op = "fetch_and_start"
    /\ last.res = Ok(None)

\* C8 (returned jobs were enqueued): every returned Job carries the id of an
\* inserted row and the command that was passed to the enqueue of that id.
C8_ReturnedWasEnqueued ==
    \A i \in 1..Len(returned) :
        /\ returned[i].id \in DOMAIN enqueued
        /\ returned[i].command = enqueued[returned[i].id].command

\* Two jobs with different commands have been returned.
C8_Witness ==
    \E i, j \in 1..Len(returned) :
        returned[i].command # returned[j].command

\* C9 (round trip): the (kind, data) pair that serialize produced for an
\* enqueued command deserializes, without error, to that command.
C9_RoundTrip ==
    \A id \in DOMAIN job_queue :
        JobCommand_deserialize(job_queue[id].kind, job_queue[id].data)
            = Ok(enqueued[id].command)

\* Every constructible command is stored in some row.
C9_Witness ==
    \A cmd \in JobCommands :
        \E id \in DOMAIN job_queue : enqueued[id].command = cmd

\* C10 (count is capped): count_pending(max) returns at most max.
C10_CountCapped ==
    (last.op = "count_pending" /\ IsOk(last.res)) => last.res.val <= last.arg

\* C11 (what count_pending counts): called with max at least the number of
\* rows, count_pending returns the number of claimed rows and changes no row.
C11_CountsClaimed ==
    [][\A max \in 0..MaxCountArg :
          (count_pending(max) /\ max >= Cardinality(DOMAIN job_queue)) =>
              /\ last'.res = Ok(Cardinality(ClaimedIds))
              /\ job_queue' = job_queue]_vars

\* C11 with max at least 1: the count is the number of claimed rows.
C11_CountsClaimedFromOne ==
    [][\A max \in 1..MaxCountArg :
          (count_pending(max) /\ max >= Cardinality(DOMAIN job_queue)) =>
              /\ last'.res = Ok(Cardinality(ClaimedIds))
              /\ job_queue' = job_queue]_vars

\* The row an enqueue step has just inserted.
NewRow == job_queue'[nextId]

\* C13 (enqueue's effect): a successful enqueue adds exactly one row, under an
\* id no row had, with started_at null, the priority given and the serialized
\* command, and neither changes nor removes a row there was.
C13_EnqueueAddsOneRow ==
    [][\A job \in JobCommands, priority \in Priorities :
          enqueue_with_priority(job, priority) =>
              /\ nextId \notin DOMAIN job_queue \cup DOMAIN enqueued
              /\ DOMAIN job_queue' = DOMAIN job_queue \cup {nextId}
              /\ \A id \in DOMAIN job_queue : job_queue'[id] = job_queue[id]
              /\ NewRow.started_at = << >>
              /\ NewRow.priority = priority
              /\ << NewRow.kind, NewRow.data >> = << "SyncBranch", job.f0 >>]_vars

\* C13 with the priority read back as the u16 it was cast from.
C13_EnqueueAddsOneRowAsStored ==
    [][\A job \in JobCommands, priority \in Priorities :
          enqueue_with_priority(job, priority) =>
              /\ nextId \notin DOMAIN job_queue \cup DOMAIN enqueued
              /\ DOMAIN job_queue' = DOMAIN job_queue \cup {nextId}
              /\ \A id \in DOMAIN job_queue : job_queue'[id] = job_queue[id]
              /\ NewRow.started_at = << >>
              /\ NewRow.priority = priority \/ NewRow.priority = priority - U16Modulus
              /\ << NewRow.kind, NewRow.data >> = << "SyncBranch", job.f0 >>]_vars

\* The lifecycle state of an id in table q.
Lifecycle(q, id) ==
    IF id \notin DOMAIN q THEN "absent"
    ELSE IF q[id].started_at = << >> THEN "pending" ELSE "claimed"

\* C14 (job lifecycle): a row is pending or claimed; an id goes from absent to
\* pending by an enqueue, from pending to claimed by the conditional update of
\* fetch_and_start, from claimed to absent by finish_job on it, and in no other
\* way: a claimed row is never pending again and stays claimed until finished.
C14_Lifecycle ==
    [][\A id \in JobRefs :
          LET before == Lifecycle(job_queue, id)
              after == Lifecycle(job_queue', id)
          IN \/ before = after
             \/ /\ before = "absent" /\ after = "pending"
                /\ \E job \in JobCommands, priority \in Priorities :
                       enqueue_with_priority(job, priority)
             \/ /\ before = "pending" /\ after = "claimed"
                /\ \E w \in Workers :
                       fetch_and_start_update(w) /\ Unwrap(sel[w]).id = id
             \/ /\ before = "claimed" /\ after = "absent"
                /\ finish_job(id)]_vars

\* A fetch_and_start found nothing to claim while a claimed row sits in the
\* table: the claimed row was not handed out again.
C14_Witness ==
    /\ last.op = "fetch_and_start"
    /\ last.res = Ok(None)
    /\ ClaimedIds # {}
    /\ ClaimedIds \subseteq ReturnedIds

\* C16 (priority width): the stored priorities of two rows compare as the
\* priorities the rows were enqueued with do, over the whole u16 range.
C16_StoredOrderIsArgumentOrder ==
    [][\A job \in JobCommands, priority \in Priorities :
          enqueue_with_priority(job, priority) =>
              \A id \in DOMAIN job_queue :
                  (priority > PriorityArg(id))
                      <=> (NewRow.priority > job_queue[id].priority)]_vars

\* C17 (who may finish): finish_job on a job that fetch_and_start returned is
\* aborted only when an earlier finish_job on it succeeded; while the row is
\* claimed the call succeeds, whoever makes it.
C17_AbortedOnlyAfterFinish ==
    [][\A id \in JobRefs :
          (finish_job(id) /\ id \in ReturnedIds) =>
              /\ last'.res = Err(JobAborted(id)) => id \in Finished
              /\ id \in ClaimedIds => last'.res = Ok(Unit)
              /\ last'.res \in {Ok(Unit), Err(JobAborted(id))}]_vars

\* Two jobs were handed out, one was finished, and a further finish_job on the
\* finished one was aborted.
C17_Witness ==
    /\ Len(returned) >= 2
    /\ last.op = "finish_job"
    /\ last.res = Err(JobAborted(last.arg))
    /\ last.arg \in ReturnedIds
    /\ last.arg \in Finished
    /\ ClaimedIds # {}

\* C18 (a lone caller never loses the race): with one fetch_and_start caller,
\* the row it selected is still pending when its update runs, whatever enqueue
\* and finish_job did in between, so cols != 0 and the retry is not taken.
C18_SoloUpdateHits ==
    \A w \in Workers :
        pc[w] = "update" =>
            /\ Unwrap(sel[w]).id \in PendingIds
            /\ Cardinality({ row \in DOMAIN job_queue :
                               ClaimFilter(job_queue, row, Unwrap(sel[w]).id) }) # 0

\* A finish_job succeeded between the caller's select and its update.
C18_Witness ==
    /\ \E w \in Workers : pc[w] = "update"
    /\ last.op = "finish_job"
    /\ IsOk(last.res)

\* Row a ranks before row b in the select's order, a and b different rows.
Outranks(a, b) ==
    \/ job_queue[a].priority > job_queue[b].priority
    \/ job_queue[a].priority = job_queue[b].priority /\ a < b

\* C20 (top-ranked at the update): when the conditional update succeeds, no
\* pending row ranks before the row it claims.
C20_TopRankedAtUpdate ==
    [][\A w \in Workers :
          (fetch_and_start_update(w) /\ Len(returned') > Len(returned)) =>
              \A b \in PendingIds : ~Outranks(b, Unwrap(sel[w]).id)]_vars

\* C20 as amended: when the select step runs, no pending row ranks before the
\* row it selects, and the update claims the selected row or none.
C20_TopRankedAtSelect ==
    [][\A w \in Workers :
          /\ (fetch_and_start_select(w) /\ IsSome(sel'[w])) =>
                 /\ Unwrap(sel'[w]).id \in PendingIds
                 /\ \A b \in PendingIds : ~Outranks(b, Unwrap(sel'[w]).id)
          /\ fetch_and_start_update(w) =>
                 PendingIds \ PendingIds' \subseteq {Unwrap(sel[w]).id}]_vars

\* A job was just returned although a pending row, enqueued after the select,
\* ranks before it.
C20_Witness ==
    /\ last.op = "fetch_and_start"
    /\ IsOk(last.res)
    /\ IsSome(last.res.val)
    /\ Unwrap(last.res.val).id \in ClaimedIds
    /\ \E b \in PendingIds : Outranks(b, Unwrap(last.res.val).id)

\* C12 (a failed call claimed nothing): the step on which a fetch_and_start
\* call returns a failure (store error or DecodeError) leaves every pending
\* row pending; the steps of the call before it do not write the table.
C12_FailedCallClaimedNothing ==
    [][\A w \in Workers :
          ( /\ pc[w] # "idle"
            /\ pc'[w] = "idle"
            /\ last'.op = "fetch_and_start"
            /\ last'.arg = w
            /\ last'.res.tag = "Err" ) => PendingIds' = PendingIds]_vars

\* C15 (claim race): the conditional update of a caller whose selected row is
\* still pending claims that row and returns its job; the update of a caller
\* whose selected row is no longer pending affects no row, returns nothing
\* (no error, no None, not the lost row) and sends the caller back to the
\* select step. The first update on a row ends its being pending, so of the
\* callers that selected one row exactly one wins.
C15_ClaimRace ==
    [][\A w \in Workers :
          fetch_and_start_update(w) =>
              LET id == Unwrap(sel[w]).id IN
              IF id \in PendingIds
              THEN /\ PendingIds' = PendingIds \ {id}
                   /\ ClaimedIds' = ClaimedIds \cup {id}
                   /\ pc'[w] = "idle"
                   /\ Len(returned') = Len(returned) + 1
                   /\ returned'[Len(returned')].id = id
                   /\ last' = [op |-> "fetch_and_start", arg |-> w,
                               res |-> Ok(Some(returned'[Len(returned')]))]
              ELSE /\ job_queue' = job_queue
                   /\ pc'[w] = "retry"
                   /\ returned' = returned
                   /\ last' = last]_vars

\* Two callers selected one row; one has just returned its job, the other's
\* update affected zero rows and it is about to select again.
C15_Witness ==
    \E w \in Workers, v \in Workers :
        /\ w # v
        /\ pc[w] = "retry"
        /\ last.op = "fetch_and_start"
        /\ last.arg = v
        /\ IsOk(last.res)
        /\ IsSome(last.res.val)
        /\ Unwrap(last.res.val).id = Unwrap(sel[w]).id
        /\ Cardinality({ i \in 1..Len(returned) :
                           returned[i].id = Unwrap(sel[w]).id }) = 1

\* C19 (progress of the claim loop): a zero-row update is on a row that is no
\* longer pending and that another caller was handed since the select; the
\* select picks a pending row, after a retry a row other than the lost one; a
\* row that stopped being pending is never pending again (so a call retries at
\* most once per row taken by others); and every call that is under way
\* returns, the callers being scheduled fairly and the jobs finitely many.
C19_Progress ==
    /\ [][\A w \in Workers :
             /\ (fetch_and_start_update(w) /\ pc'[w] = "retry") =>
                    /\ Unwrap(sel[w]).id \notin PendingIds
                    /\ Unwrap(sel[w]).id \in ReturnedIds
                    /\ job_queue' = job_queue
             /\ (fetch_and_start_select(w) /\ IsSome(sel'[w])) =>
                    /\ Unwrap(sel'[w]).id \in PendingIds
                    /\ pc[w] = "retry" => Unwrap(sel'[w]).id # Unwrap(sel[w]).id]_vars
    /\ [][\A id \in DOMAIN enqueued :
             id \notin PendingIds => id \notin PendingIds']_vars
    /\ \A w \in Workers : (pc[w] # "idle") ~> (pc[w] = "idle")

\* A caller lost the race for a row that its winner has since finished, and
\* another pending row is there for its next select.
C19_Witness ==
    \E w \in Workers :
        /\ pc[w] = "retry"
        /\ Unwrap(sel[w]).id \in ReturnedIds
        /\ Unwrap(sel[w]).id \in Finished
        /\ PendingIds # {}

====
